---- MODULE Spec2Model ----
(***************************************************************************)
(* Repository-rules evaluation of DesktopGit:                              *)
(*   app/src/main-process/menu/menu-event.ts                               *)
(*     RepoRulesMetadataFailures, RepoRulesMetadataRules, RepoRulesInfo,   *)
(*     IRepoRulesMetadataRule, RepoRulesMetadataMatcher, RepoRuleEnforced  *)
(*                                                                         *)
(* Spec      one RepoRulesMetadataRules object driven by push, hasRules    *)
(*           and getFailedRules, each call one atomic step (the code is    *)
(*           synchronous).                                                 *)
(* SpecConc  several getFailedRules evaluations interleaved rule by rule   *)
(*           against one rule set.                                         *)
(* SpecBuild the builder of a RepoRulesInfo from raw rule records.         *)
(*                                                                         *)
(* Check-run list of DesktopGit:                                           *)
(*   app/src/ui/check-runs/ci-check-run-list.tsx  CICheckRunList           *)
(*                                                                         *)
(* SpecList  one CICheckRunList: constructor, component updates, clicks.   *)
(* SpecInfo  several RepoRulesInfo objects with their rule sets.           *)
(***************************************************************************)
EXTENDS Integers, Sequences, FiniteSets, TLC

(***************************************************************************)
(* Bounds of the model.                                                    *)
(***************************************************************************)
\* Longest rule list explored under Spec.
MaxRules == 3

(***************************************************************************)
(* Values.                                                                 *)
(***************************************************************************)
\* The strings handed to a matcher; the empty string is one of them.
Candidates == {"", "a"}

\* RepoRuleEnforced = boolean | 'bypass'; the booleans are written as
\* strings so that the three values compare with one another.
EnforcedTrue == "true"
EnforcedFalse == "false"
EnforcedBypass == "bypass"
RepoRuleEnforced == {EnforcedTrue, EnforcedFalse, EnforcedBypass}

\* RepoRulesMetadataMatcher = (toMatch: string) => boolean.  A matcher is
\* an arbitrary predicate; it is represented by the set of strings on which
\* it returns true.
RepoRulesMetadataMatcher == SUBSET Candidates

\* Human-readable descriptions.
Descriptions == {"d1", "d2"}

\* IRepoRulesMetadataRule.
IRepoRulesMetadataRule ==
  [enforced : RepoRuleEnforced,
   matcher : RepoRulesMetadataMatcher,
   humanDescription : Descriptions]

\* The value of the optional parameter of push when no rule is passed.
Undefined ==
  [enforced |-> "undefined", matcher |-> {}, humanDescription |-> "undefined"]

\* new RepoRulesMetadataFailures()
NewFailures == [failed |-> <<>>, bypassed |-> <<>>]

(***************************************************************************)
(* RepoRulesMetadataRules.                                                 *)
(***************************************************************************)
\* rule.matcher(toMatch)
Matches(rule, toMatch) == toMatch \in rule.matcher

\* A push that forgets the undefined check.
PushUnchecked(rs, rule) == Append(rs, rule)

\* A push that puts the rule in front (unshift).
PushFront(rs, rule) == IF rule = Undefined THEN rs ELSE <<rule>> \o rs

\* push(rule?): the rule list after the call.
Push(rs, rule) == IF rule = Undefined THEN rs ELSE Append(rs, rule)

\* A hasRules that needs two rules.
HasRulesOffByOne(rs) == Len(rs) > 1

\* A hasRules that is true of the empty list.
HasRulesAlways(rs) == Len(rs) >= 0

\* get hasRules
HasRules(rs) == Len(rs) > 0

\* A loop body with the two lists swapped.
LoopBodySwapped(failures, rule, toMatch) ==
  IF ~Matches(rule, toMatch)
  THEN IF rule.enforced = EnforcedBypass
       THEN [failures EXCEPT !.failed = Append(@, rule.humanDescription)]
       ELSE [failures EXCEPT !.bypassed = Append(@, rule.humanDescription)]
  ELSE failures

\* The body of the for loop of getFailedRules, for one rule.
LoopBody(failures, rule, toMatch) ==
  IF ~Matches(rule, toMatch)
  THEN IF rule.enforced = EnforcedBypass
       THEN [failures EXCEPT !.bypassed = Append(@, rule.humanDescription)]
       ELSE [failures EXCEPT !.failed = Append(@, rule.humanDescription)]
  ELSE failures

\* A loop that returns at the first rule that fails.
RECURSIVE ForOfShortCircuit(_, _, _, _)
ForOfShortCircuit(rs, i, failures, toMatch) ==
  IF i > Len(rs) THEN failures
  ELSE IF ~Matches(rs[i], toMatch) THEN LoopBody(failures, rs[i], toMatch)
  ELSE ForOfShortCircuit(rs, i + 1, failures, toMatch)

\* for (const rule of this.rules) { ... } from index i on.
RECURSIVE ForOf(_, _, _, _)
ForOf(rs, i, failures, toMatch) ==
  IF i > Len(rs) THEN failures
  ELSE ForOf(rs, i + 1, LoopBody(failures, rs[i], toMatch), toMatch)

\* getFailedRules(toMatch): the object returned.
GetFailedRules(rs, toMatch) == ForOf(rs, 1, NewFailures, toMatch)

\* A getFailedRules that consumes the rule list while it iterates.
GetFailedRulesDraining(rs, toMatch) ==
  [rules |-> <<>>, failures |-> GetFailedRules(rs, toMatch)]

\* getFailedRules(toMatch) as a method call: the rule list it leaves behind
\* and the object it returns.
GetFailedRulesCall(rs, toMatch) ==
  [rules |-> rs, failures |-> GetFailedRules(rs, toMatch)]

(***************************************************************************)
(* Interleaved evaluations: the failures objects.                          *)
(***************************************************************************)
\* The evaluations that may run at once.
Evaluations == {"e1", "e2"}

\* The failures objects that can be live at once: one per evaluation.
Objects == 1..Cardinality(Evaluations)

\* The reference held by an evaluation that is not running.
NoObject == 0

\* One failures object shared by every call (a static member).
AllocShared(inUse) == 1

\* const failures = new RepoRulesMetadataFailures(): the object of a call
\* is a fresh one, none of those other calls hold.
Alloc(inUse) ==
  CHOOSE o \in Objects \ inUse : \A o2 \in Objects \ inUse : o <= o2

(***************************************************************************)
(* RepoRulesInfo and its builder.                                          *)
(***************************************************************************)
\* The four RepoRulesMetadataRules fields of RepoRulesInfo.
MetadataCategories ==
  {"commitMessagePatterns", "commitAuthorEmailPatterns",
   "committerEmailPatterns", "branchNamePatterns"}

\* The three RepoRuleEnforced fields of RepoRulesInfo.
ScalarCategories ==
  {"basicCommitWarning", "creationRestricted", "pullRequestRequired"}

\* new RepoRulesInfo()
NewRepoRulesInfo ==
  [basicCommitWarning |-> EnforcedFalse,
   creationRestricted |-> EnforcedFalse,
   pullRequestRequired |-> EnforcedFalse,
   commitMessagePatterns |-> <<>>,
   commitAuthorEmailPatterns |-> <<>>,
   committerEmailPatterns |-> <<>>,
   branchNamePatterns |-> <<>>]

\* The pattern strings of raw rules: "a" compiles, "(" does not.
Patterns == {"a", "("}

\* The pattern field of a raw rule of a category that has no pattern.
NoPattern == "none"

\* The raw rule records handed to build: a category tag, a pattern, a
\* negation flag and an actor-bypassable flag.
RawRuleConfig ==
  [category : MetadataCategories, pattern : Patterns,
   negated : BOOLEAN, bypassable : BOOLEAN]
  \cup
  [category : ScalarCategories, pattern : {NoPattern},
   negated : {FALSE}, bypassable : BOOLEAN]

\* Whether a pattern compiles into a matcher.
Compiles(pattern) == pattern # "("

\* The matcher of a pattern that compiles: the strings that contain it,
\* or, negated, the strings that do not.
ToMatcher(raw) ==
  LET hits == {c \in Candidates : c = raw.pattern} IN
  IF raw.negated THEN Candidates \ hits ELSE hits

\* The enforcement level of a raw rule for the actor.
ResolveEnforced(raw, eligible) ==
  IF raw.bypassable /\ eligible THEN EnforcedBypass ELSE EnforcedTrue

\* The description of a metadata rule, from its pattern and negation flag.
Describe(raw) == IF raw.negated THEN "d2" ELSE "d1"

\* A build step that leaves a rule whose pattern does not compile out and
\* goes on.
BuildOneSkippingBad(info, raw, eligible) ==
  IF raw.category \in ScalarCategories
  THEN [kind |-> "ok",
        info |-> [info EXCEPT ![raw.category] = ResolveEnforced(raw, eligible)]]
  ELSE IF ~Compiles(raw.pattern)
  THEN [kind |-> "ok", info |-> info]
  ELSE [kind |-> "ok",
        info |-> [info EXCEPT ![raw.category] =
                    Push(@, [enforced |-> ResolveEnforced(raw, eligible),
                             matcher |-> ToMatcher(raw),
                             humanDescription |-> Describe(raw)])]]

\* What build does with one raw rule: steps 2 and 3 of the algorithm.
BuildOne(info, raw, eligible) ==
  IF raw.category \in ScalarCategories
  THEN [kind |-> "ok",
        info |-> [info EXCEPT ![raw.category] = ResolveEnforced(raw, eligible)]]
  ELSE IF ~Compiles(raw.pattern)
  THEN [kind |-> "error", error |-> "InvalidPattern"]
  ELSE [kind |-> "ok",
        info |-> [info EXCEPT ![raw.category] =
                    Push(@, [enforced |-> ResolveEnforced(raw, eligible),
                             matcher |-> ToMatcher(raw),
                             humanDescription |-> Describe(raw)])]]

(***************************************************************************)
(* CICheckRunList: app/src/ui/check-runs/ci-check-run-list.tsx             *)
(***************************************************************************)
\* Most check runs passed as props; their ids are 1..MaxCheckRuns.
MaxCheckRuns == 2

CheckRunIds == 1..MaxCheckRuns

\* id.toString()
IdToString(id) == <<"1", "2", "3", "4", "5", "6", "7", "8", "9">>[id]

\* checkRunExpanded: string | null
Null == "null"

\* currentState: ICICheckRunListState | null
NullState == [null |-> TRUE]

\* The group a check run falls in: its workflow name, or Other for a check
\* that is not of a workflow.  Runs with an odd id are of the workflow CI.
GroupNameOf(id) == IF id % 2 = 1 THEN "CI" ELSE "Other"

\* IRefCheck, as far as the list reads it: id, conclusion, actionJobSteps
\* (defined or undefined).
IRefCheck ==
  [id : CheckRunIds, conclusion : {"failure", "success"},
   actionJobSteps : {"defined", "undefined"}]

\* The checkRuns arrays passed as props: check runs with distinct ids, in
\* the order of their ids.
RECURSIVE CheckRunArrays(_)
CheckRunArrays(n) ==
  IF n = 0 THEN {<<>>}
  ELSE LET shorter == CheckRunArrays(n - 1) IN
       shorter \cup
       {Append(crs, cr) : crs \in shorter,
                          cr \in {c \in IRefCheck : c.id = n}}

\* isFailure(cr)
IsFailure(cr) == cr.conclusion = "failure"

\* The names of the groups of checkRuns, in the order they first appear.
RECURSIVE GroupNames(_)
GroupNames(checkRuns) ==
  IF checkRuns = <<>> THEN <<>>
  ELSE LET front == GroupNames(SubSeq(checkRuns, 1, Len(checkRuns) - 1))
           name == GroupNameOf(checkRuns[Len(checkRuns)].id) IN
       IF \E k \in 1..Len(front) : front[k] = name
       THEN front ELSE Append(front, name)

\* getCheckRunsGroupedByActionWorkflowNameAndEvent(checkRuns): the map, as
\* the sequence of its entries in iteration order.
GetCheckRunsGrouped(checkRuns) ==
  LET names == GroupNames(checkRuns) IN
  [k \in 1..Len(names) |->
     [name |-> names[k],
      checkRuns |-> SelectSeq(checkRuns,
                              LAMBDA cr : GroupNameOf(cr.id) = names[k])]]

\* group.find(cr => isFailure(cr) && cr.actionJobSteps !== undefined) from
\* index i on; <<>> stands for undefined.
RECURSIVE Find(_, _)
Find(group, i) ==
  IF i > Len(group) THEN <<>>
  ELSE IF IsFailure(group[i]) /\ group[i].actionJobSteps # "undefined"
       THEN <<group[i]>>
       ELSE Find(group, i + 1)

\* The for loop over checkRunGroups.values() from group k on: the value of
\* checkRunExpanded at its end.
RECURSIVE FirstFailureExpanded(_, _)
FirstFailureExpanded(checkRunGroups, k) ==
  IF k > Len(checkRunGroups) THEN Null
  ELSE LET firstFailure == Find(checkRunGroups[k].checkRuns, 1) IN
       IF firstFailure # <<>> THEN IdToString(firstFailure[1].id)
       ELSE FirstFailureExpanded(checkRunGroups, k + 1)

\* A setupStateAfterCheckRunPropChange that resets the position on every
\* prop change: no early return for a user who has toggled a check run,
\* the groups taken from the props.
SetupStateResettingPosition(p, currentState) ==
  LET checkRunGroups == GetCheckRunsGrouped(p.checkRuns)
  IN [checkRunGroups |-> checkRunGroups,
      checkRunExpanded |-> FirstFailureExpanded(checkRunGroups, 1),
      hasUserToggledCheckRun |->
        IF currentState = NullState THEN FALSE
        ELSE currentState.hasUserToggledCheckRun]

\* setupStateAfterCheckRunPropChange(props, currentState)
SetupStateAfterCheckRunPropChange(p, currentState) ==
  IF currentState # NullState /\ currentState.hasUserToggledCheckRun
  THEN currentState
  ELSE
  LET checkRunGroups ==
        IF currentState = NullState
        THEN GetCheckRunsGrouped(p.checkRuns)
        ELSE currentState.checkRunGroups
  IN [checkRunGroups |-> checkRunGroups,
      checkRunExpanded |-> FirstFailureExpanded(checkRunGroups, 1),
      hasUserToggledCheckRun |->
        IF currentState = NullState THEN FALSE
        ELSE currentState.hasUserToggledCheckRun]

\* onCheckRunClick: the new checkRunExpanded.
ClickExpanded(p, st, id) ==
  IF st.checkRunExpanded = IdToString(id) /\ ~p.selectable
  THEN Null ELSE IdToString(id)

(***************************************************************************)
(* RepoRulesInfo objects whose rule sets hold their rules arrays by        *)
(* reference.                                                              *)
(***************************************************************************)
\* The RepoRulesInfo objects that may exist at once.
Infos == {"i1", "i2"}

\* The rules arrays that can exist: one per rule set of each object.
ArrayRefs == 1..(Cardinality(Infos) * Cardinality(MetadataCategories))

\* An object that has not been constructed.
NullInfo == [null |-> TRUE]

\* One rules array shared by every rule set (a static member).
AllocArrayShared(inUse) == 1

\* private rules: IRepoRulesMetadataRule[] = []: the array of a new rule
\* set is a fresh one.
AllocArray(inUse) ==
  CHOOSE r \in ArrayRefs \ inUse : \A r2 \in ArrayRefs \ inUse : r <= r2

\* new RepoRulesInfo(): the three flags false and four new rule sets, made
\* in the order of the fields; inUse are the arrays that exist already.
ConstructRepoRulesInfo(inUse) ==
  LET r1 == AllocArray(inUse)
      r2 == AllocArray(inUse \cup {r1})
      r3 == AllocArray(inUse \cup {r1, r2})
      r4 == AllocArray(inUse \cup {r1, r2, r3})
  IN [basicCommitWarning |-> EnforcedFalse,
      creationRestricted |-> EnforcedFalse,
      pullRequestRequired |-> EnforcedFalse,
      commitMessagePatterns |-> r1,
      commitAuthorEmailPatterns |-> r2,
      committerEmailPatterns |-> r3,
      branchNamePatterns |-> r4]

(***************************************************************************)
(* State.                                                                  *)
(***************************************************************************)
VARIABLES
  rules,        \* RepoRulesMetadataRules.rules
  last,         \* the last call made on the rule set and what it returned
  pushed,       \* the defined rules passed to push so far, in call order
  pc,           \* SpecConc: where each evaluation is: idle, loop or done
  arg,          \* SpecConc: the toMatch of each evaluation
  idx,          \* SpecConc: the position of each evaluation's for loop
  ref,          \* SpecConc: the failures object of each evaluation
  heap,         \* SpecConc: the failures objects
  expected,     \* SpecConc: what each evaluation returns when run alone
  buildPc,      \* SpecBuild: where the build is: idle, running or returned
  rawRules,     \* SpecBuild: the raw rule records given to build
  actorIsBypassEligible,  \* SpecBuild: the second argument of build
  bpos,         \* SpecBuild: the raw rule build looks at next
  binfo,        \* SpecBuild: the RepoRulesInfo under construction
  buildResult,  \* SpecBuild: what build returned
  props,        \* SpecList: CICheckRunList.props (checkRuns, selectable)
  state,        \* SpecList: CICheckRunList.state
  listEvent,    \* SpecList: what happened to the component last
  infos,        \* SpecInfo: the RepoRulesInfo objects
  arrays,       \* SpecInfo: the rules arrays of their rule sets
  infoLast      \* SpecInfo: the last call made on a RepoRulesInfo

ruleSetVars == <<rules, last, pushed>>
concVars == <<pc, arg, idx, ref, heap, expected>>
buildVars ==
  <<buildPc, rawRules, actorIsBypassEligible, bpos, binfo, buildResult>>
listVars == <<props, state, listEvent>>
infoVars == <<infos, arrays, infoLast>>
restVars == <<listVars, infoVars>>
vars == <<ruleSetVars, concVars, buildVars, restVars>>

\* No evaluation is running.
ConcIdle ==
  /\ pc = [p \in Evaluations |-> "idle"]
  /\ arg = [p \in Evaluations |-> ""]
  /\ idx = [p \in Evaluations |-> 0]
  /\ ref = [p \in Evaluations |-> NoObject]
  /\ heap = [o \in Objects |-> NewFailures]
  /\ expected = [p \in Evaluations |-> NewFailures]

\* No build has been made.
BuildIdle ==
  /\ buildPc = "idle"
  /\ rawRules = <<>>
  /\ actorIsBypassEligible = FALSE
  /\ bpos = 0
  /\ binfo = NewRepoRulesInfo
  /\ buildResult = [kind |-> "none"]

\* No CICheckRunList has been constructed.
ListUnmounted ==
  /\ props = [checkRuns |-> <<>>, selectable |-> FALSE]
  /\ state = NullState
  /\ listEvent = "none"

\* No RepoRulesInfo has been constructed.
NoInfos ==
  /\ infos = [i \in Infos |-> NullInfo]
  /\ arrays = [r \in ArrayRefs |-> <<>>]
  /\ infoLast = [op |-> "none"]

\* private rules: IRepoRulesMetadataRule[] = []
Init ==
  /\ rules = <<>>
  /\ last = [op |-> "new"]
  /\ pushed = <<>>
  /\ ConcIdle
  /\ BuildIdle
  /\ ListUnmounted
  /\ NoInfos

\* A call push(rule) with a rule.
DoPush ==
  /\ Len(rules) < MaxRules
  /\ \E rule \in IRepoRulesMetadataRule :
       /\ rules' = Push(rules, rule)
       /\ last' = [op |-> "push", rule |-> rule]
       /\ pushed' = Append(pushed, rule)
  /\ UNCHANGED <<concVars, buildVars, restVars>>

\* A call push() or push(undefined).
DoPushUndefined ==
  /\ rules' = Push(rules, Undefined)
  /\ last' = [op |-> "push", rule |-> Undefined]
  /\ UNCHANGED pushed
  /\ UNCHANGED <<concVars, buildVars, restVars>>

\* A read of hasRules.
DoHasRules ==
  /\ last' = [op |-> "hasRules", ret |-> HasRules(rules)]
  /\ UNCHANGED <<rules, pushed>>
  /\ UNCHANGED <<concVars, buildVars, restVars>>

\* A call getFailedRules(toMatch).
DoGetFailedRules(toMatch) ==
  LET call == GetFailedRulesCall(rules, toMatch) IN
  /\ rules' = call.rules
  /\ last' = [op |-> "getFailedRules", toMatch |-> toMatch,
              failures |-> call.failures]
  /\ UNCHANGED pushed
  /\ UNCHANGED <<concVars, buildVars, restVars>>

Next ==
  \/ DoPush
  \/ DoPushUndefined
  \/ DoHasRules
  \/ \E toMatch \in Candidates : DoGetFailedRules(toMatch)

Spec == Init /\ [][Next]_vars

(***************************************************************************)
(* SpecConc: getFailedRules calls that run interleaved, one rule of the    *)
(* for loop at a time, against one rule set.  A push is made only while no *)
(* call is inside its loop.                                                *)
(***************************************************************************)
\* Longest rule list explored under SpecConc.
MaxConcRules == 2

\* The rules pushed under SpecConc.
ConcRules ==
  {r \in IRepoRulesMetadataRule :
     r.enforced # EnforcedFalse /\ r.matcher \in {{}, {"a"}}}

\* The failures objects held by the calls in progress or returned.
InUse == {ref[p] : p \in {q \in Evaluations : pc[q] # "idle"}}

\* push(rule) while no getFailedRules call is in its loop.
ConcPush ==
  /\ \A p \in Evaluations : pc[p] # "loop"
  /\ Len(rules) < MaxConcRules
  /\ \E rule \in ConcRules :
       /\ rules' = Push(rules, rule)
       /\ pushed' = Append(pushed, rule)
  /\ UNCHANGED <<last, concVars, buildVars, restVars>>

\* getFailedRules(toMatch) is entered: const failures = new ...
EvalStart(p, toMatch) ==
  /\ pc[p] = "idle"
  /\ LET o == Alloc(InUse) IN
       /\ ref' = [ref EXCEPT ![p] = o]
       /\ heap' = [heap EXCEPT ![o] = NewFailures]
  /\ pc' = [pc EXCEPT ![p] = "loop"]
  /\ arg' = [arg EXCEPT ![p] = toMatch]
  /\ idx' = [idx EXCEPT ![p] = 1]
  /\ expected' = [expected EXCEPT ![p] = GetFailedRules(rules, toMatch)]
  /\ UNCHANGED <<ruleSetVars, buildVars, restVars>>

\* One turn of the for loop.
EvalStep(p) ==
  /\ pc[p] = "loop"
  /\ idx[p] <= Len(rules)
  /\ heap' = [heap EXCEPT ![ref[p]] = LoopBody(@, rules[idx[p]], arg[p])]
  /\ idx' = [idx EXCEPT ![p] = @ + 1]
  /\ UNCHANGED <<ruleSetVars, pc, arg, ref, expected, buildVars, restVars>>

\* return failures
EvalReturn(p) ==
  /\ pc[p] = "loop"
  /\ idx[p] > Len(rules)
  /\ pc' = [pc EXCEPT ![p] = "done"]
  /\ UNCHANGED <<ruleSetVars, arg, idx, ref, heap, expected, buildVars, restVars>>

\* The caller lets go of the report.
EvalDrop(p) ==
  /\ pc[p] = "done"
  /\ pc' = [pc EXCEPT ![p] = "idle"]
  /\ arg' = [arg EXCEPT ![p] = ""]
  /\ idx' = [idx EXCEPT ![p] = 0]
  /\ heap' = [heap EXCEPT ![ref[p]] = NewFailures]
  /\ ref' = [ref EXCEPT ![p] = NoObject]
  /\ expected' = [expected EXCEPT ![p] = NewFailures]
  /\ UNCHANGED <<ruleSetVars, buildVars, restVars>>

NextConc ==
  \/ ConcPush
  \/ \E p \in Evaluations, toMatch \in Candidates : EvalStart(p, toMatch)
  \/ \E p \in Evaluations : EvalStep(p)
  \/ \E p \in Evaluations : EvalReturn(p)
  \/ \E p \in Evaluations : EvalDrop(p)

SpecConc == Init /\ [][NextConc]_vars

(***************************************************************************)
(* SpecBuild: build(rawRules, actorIsBypassEligible), one raw rule at a    *)
(* time.                                                                   *)
(***************************************************************************)
\* Longest sequence of raw rules given to build.
MaxRaw == 2

\* The sequences of raw rules of length n.
RawSeqs(n) == [1..n -> RawRuleConfig]

\* build is called.
BuildStart ==
  /\ buildPc = "idle"
  /\ buildPc' = "running"
  /\ \E n \in 0..MaxRaw : \E raws \in RawSeqs(n) : rawRules' = raws
  /\ \E eligible \in BOOLEAN : actorIsBypassEligible' = eligible
  /\ bpos' = 1
  /\ binfo' = NewRepoRulesInfo
  /\ buildResult' = [kind |-> "none"]
  /\ UNCHANGED <<ruleSetVars, concVars, restVars>>

\* build handles the next raw rule; a pattern that does not compile ends
\* the build with the error and the RepoRulesInfo under construction is
\* thrown away.
BuildStep ==
  /\ buildPc = "running"
  /\ bpos <= Len(rawRules)
  /\ LET r == BuildOne(binfo, rawRules[bpos], actorIsBypassEligible) IN
       IF r.kind = "error"
       THEN /\ buildPc' = "returned"
            /\ buildResult' = [kind |-> "error", error |-> r.error]
            /\ binfo' = NewRepoRulesInfo
            /\ bpos' = bpos
       ELSE /\ binfo' = r.info
            /\ bpos' = bpos + 1
            /\ UNCHANGED <<buildPc, buildResult>>
  /\ UNCHANGED <<rawRules, actorIsBypassEligible, ruleSetVars, concVars, restVars>>

\* build returns the assembled RepoRulesInfo.
BuildReturn ==
  /\ buildPc = "running"
  /\ bpos > Len(rawRules)
  /\ buildPc' = "returned"
  /\ buildResult' = [kind |-> "ok", evaluation |-> binfo]
  /\ UNCHANGED <<rawRules, actorIsBypassEligible, bpos, binfo,
                 ruleSetVars, concVars, restVars>>

\* The caller is done with the result; the next build starts afresh.
BuildDrop ==
  /\ buildPc = "returned"
  /\ buildPc' = "idle"
  /\ rawRules' = <<>>
  /\ actorIsBypassEligible' = FALSE
  /\ bpos' = 0
  /\ binfo' = NewRepoRulesInfo
  /\ buildResult' = [kind |-> "none"]
  /\ UNCHANGED <<ruleSetVars, concVars, restVars>>

NextBuild ==
  \/ BuildStart
  \/ BuildStep
  \/ BuildReturn
  \/ BuildDrop

SpecBuild == Init /\ [][NextBuild]_vars

(***************************************************************************)
(* SpecList: one CICheckRunList: constructed, updated with new props by    *)
(* its parent, clicked by the user.                                        *)
(***************************************************************************)
\* checkRuns with the check run of one id replaced by entry: <<>> for no
\* such check run, <<cr>> for the check run cr.
WithCheckRun(checkRuns, id, entry) ==
  SelectSeq(checkRuns, LAMBDA cr : cr.id < id)
    \o entry \o SelectSeq(checkRuns, LAMBDA cr : cr.id > id)

\* The props the parent may pass next: one check run has appeared, gone or
\* changed, or selectable has changed.
NextProps(p) ==
  (UNION {{[p EXCEPT !.checkRuns = WithCheckRun(@, id, entry)] :
             entry \in {<<>>} \cup {<<cr>> : cr \in {c \in IRefCheck : c.id = id}}} :
          id \in CheckRunIds}
   \cup {[p EXCEPT !.selectable = ~@]})
  \ {p}

\* The check runs shown: those of the props and those of the groups held
\* in the state.
Shown ==
  {props.checkRuns[k].id : k \in 1..Len(props.checkRuns)}
  \cup UNION {{state.checkRunGroups[g].checkRuns[k].id :
                  k \in 1..Len(state.checkRunGroups[g].checkRuns)} :
               g \in 1..Len(state.checkRunGroups)}

\* constructor(props)
Construct ==
  /\ state = NullState
  /\ \E checkRuns \in CheckRunArrays(MaxCheckRuns), selectable \in BOOLEAN :
       /\ props' = [checkRuns |-> checkRuns, selectable |-> selectable]
       /\ state' = SetupStateAfterCheckRunPropChange(props', NullState)
  /\ listEvent' = "constructed"
  /\ UNCHANGED <<ruleSetVars, concVars, buildVars, infoVars>>

\* The parent passes new props; componentDidUpdate follows.
Update ==
  /\ state # NullState
  /\ \E q \in NextProps(props) :
       /\ props' = q
       /\ LET s == SetupStateAfterCheckRunPropChange(q, state) IN
            state' = [state EXCEPT
                        !.checkRunExpanded = s.checkRunExpanded,
                        !.hasUserToggledCheckRun = s.hasUserToggledCheckRun]
  /\ listEvent' = "update"
  /\ UNCHANGED <<ruleSetVars, concVars, buildVars, infoVars>>

\* The user clicks a check run: onCheckRunClick, and the
\* componentDidUpdate that follows the state change.
Click ==
  /\ state # NullState
  /\ \E id \in Shown :
       LET clicked == [state EXCEPT
                         !.checkRunExpanded = ClickExpanded(props, state, id),
                         !.hasUserToggledCheckRun = TRUE]
           s == SetupStateAfterCheckRunPropChange(props, clicked) IN
       state' = [clicked EXCEPT
                   !.checkRunExpanded = s.checkRunExpanded,
                   !.hasUserToggledCheckRun = s.hasUserToggledCheckRun]
  /\ listEvent' = "click"
  /\ UNCHANGED <<props, ruleSetVars, concVars, buildVars, infoVars>>

NextList ==
  \/ Construct
  \/ Update
  \/ Click

SpecList == Init /\ [][NextList]_vars

(***************************************************************************)
(* SpecInfo: several RepoRulesInfo objects; rules are pushed into their    *)
(* rule sets and their flags are assigned.                                 *)
(***************************************************************************)
\* Most rules stored and flags set, over all objects together.
MaxInfoWrites == 2

\* The rules pushed under SpecInfo.
InfoRules == {r \in ConcRules : r.humanDescription = "d1"}

\* The objects that have been constructed.
Constructed == {i \in Infos : infos[i] # NullInfo}

\* The arrays held by the rule sets of the constructed objects.
ArraysInUse == {infos[i][cat] : i \in Constructed, cat \in MetadataCategories}

\* this.rules of the rule set cat of object i, in the heap hp.
RulesOf(inf, hp, i, cat) == hp[inf[i][cat]]

\* The rules stored and the flags that are not false.
InfoWrites ==
  Cardinality({<<r, k>> \in ArrayRefs \X (1..MaxInfoWrites + 1) :
                 k <= Len(arrays[r])})
  + Cardinality({<<i, f>> \in Constructed \X ScalarCategories :
                   infos[i][f] # EnforcedFalse})

\* new RepoRulesInfo()
NewInfo(i) ==
  /\ infos[i] = NullInfo
  /\ infos' = [infos EXCEPT ![i] = ConstructRepoRulesInfo(ArraysInUse)]
  /\ infoLast' = [op |-> "new", info |-> i]
  /\ UNCHANGED <<arrays, ruleSetVars, concVars, buildVars, listVars>>

\* info.<cat>.push(rule)
InfoPush(i, cat) ==
  /\ infos[i] # NullInfo
  /\ InfoWrites < MaxInfoWrites
  /\ \E rule \in InfoRules :
       arrays' = [arrays EXCEPT ![infos[i][cat]] = Push(@, rule)]
  /\ infoLast' = [op |-> "push", info |-> i, category |-> cat]
  /\ UNCHANGED <<infos, ruleSetVars, concVars, buildVars, listVars>>

\* info.<flag> = enforced
SetFlag(i, flag) ==
  /\ infos[i] # NullInfo
  /\ infos[i][flag] # EnforcedFalse \/ InfoWrites < MaxInfoWrites
  /\ \E enforced \in {EnforcedTrue, EnforcedBypass} :
       infos' = [infos EXCEPT ![i][flag] = enforced]
  /\ infoLast' = [op |-> "set", info |-> i, flag |-> flag]
  /\ UNCHANGED <<arrays, ruleSetVars, concVars, buildVars, listVars>>

NextInfo ==
  \/ \E i \in Infos : NewInfo(i)
  \/ \E i \in Infos, cat \in MetadataCategories : InfoPush(i, cat)
  \/ \E i \in Infos, flag \in ScalarCategories : SetFlag(i, flag)

SpecInfo == Init /\ [][NextInfo]_vars

(***************************************************************************)
(* Properties of RepoRulesMetadataRules, checked under Spec.               *)
(***************************************************************************)
\* The number of entries of seq equal to d.
Count(seq, d) == Cardinality({i \in 1..Len(seq) : seq[i] = d})

\* The stored rules of rs with a level in E and description d whose
\* matcher returns false on toMatch.
NonMatching(rs, toMatch, E, d) ==
  {i \in 1..Len(rs) : /\ ~Matches(rs[i], toMatch)
                      /\ rs[i].enforced \in E
                      /\ rs[i].humanDescription = d}

\* The descriptions, in order, of the rules of rs with a level in E whose
\* matcher returns false on toMatch.
RECURSIVE DescriptionsOf(_, _, _)
DescriptionsOf(rs, toMatch, E) ==
  IF rs = <<>> THEN <<>>
  ELSE IF ~Matches(Head(rs), toMatch) /\ Head(rs).enforced \in E
       THEN <<Head(rs).humanDescription>> \o DescriptionsOf(Tail(rs), toMatch, E)
       ELSE DescriptionsOf(Tail(rs), toMatch, E)

\* C1: in the report of getFailedRules(c), every stored Required rule whose
\* matcher returns false on c has its description in `failed`, every stored
\* Bypassable one has it in `bypassed`, no Required rule contributes to
\* `bypassed` and no Bypassable rule contributes to `failed`.
C1_RequiredFailsBypassableBypasses ==
  last.op = "getFailedRules" =>
    \A d \in Descriptions :
      /\ Count(last.failures.bypassed, d)
           = Cardinality(NonMatching(rules, last.toMatch, {EnforcedBypass}, d))
      /\ Count(last.failures.failed, d)
           >= Cardinality(NonMatching(rules, last.toMatch, {EnforcedTrue}, d))
      /\ Count(last.failures.failed, d)
           <= Cardinality(NonMatching(rules, last.toMatch,
                                      RepoRuleEnforced \ {EnforcedBypass}, d))

\* A report over a Required and a Bypassable rule that both fail, and
\* nothing else.
C1_Witness ==
  /\ last.op = "getFailedRules"
  /\ Len(rules) = 2
  /\ rules[1].enforced = EnforcedTrue
  /\ rules[2].enforced = EnforcedBypass
  /\ rules[1].humanDescription # rules[2].humanDescription
  /\ last.failures.failed = <<rules[1].humanDescription>>
  /\ last.failures.bypassed = <<rules[2].humanDescription>>

\* C2: the report of getFailedRules(c) holds exactly one entry for each
\* stored rule whose matcher returns false on c and none for the others:
\* the two lists together are as long as the number of such rules, for the
\* whole set and for each description.
C2_EveryRuleVisited ==
  last.op = "getFailedRules" =>
    /\ Len(last.failures.failed) + Len(last.failures.bypassed)
         = Cardinality({i \in 1..Len(rules) : ~Matches(rules[i], last.toMatch)})
    /\ \A d \in Descriptions :
         Count(last.failures.failed, d) + Count(last.failures.bypassed, d)
           = Cardinality(NonMatching(rules, last.toMatch, RepoRuleEnforced, d))

\* A report over two failing rules with a matching rule between them.
C2_Witness ==
  /\ last.op = "getFailedRules"
  /\ Len(rules) = 3
  /\ ~Matches(rules[1], last.toMatch)
  /\ Matches(rules[2], last.toMatch)
  /\ ~Matches(rules[3], last.toMatch)
  /\ Len(last.failures.failed) + Len(last.failures.bypassed) = 2

\* C3: each list of the report holds the descriptions in the order in which
\* their rules were pushed.
C3_InsertionOrder ==
  last.op = "getFailedRules" =>
    /\ last.failures.failed
         = DescriptionsOf(pushed, last.toMatch,
                          RepoRuleEnforced \ {EnforcedBypass})
    /\ last.failures.bypassed
         = DescriptionsOf(pushed, last.toMatch, {EnforcedBypass})

\* Three rules of one level pushed, all failing, with descriptions that
\* tell the order.
C3_Witness ==
  /\ last.op = "getFailedRules"
  /\ Len(pushed) = 3
  /\ \A i \in 1..3 : /\ pushed[i].enforced = EnforcedBypass
                     /\ ~Matches(pushed[i], last.toMatch)
  /\ pushed[1].humanDescription # pushed[2].humanDescription
  /\ pushed[2].humanDescription # pushed[3].humanDescription
  /\ last.failures.bypassed
       = <<pushed[1].humanDescription, pushed[2].humanDescription,
           pushed[3].humanDescription>>

\* C4: no stored rule has the level Off (enforced = false).
C4_NoOffRuleStored ==
  \A i \in 1..Len(rules) : rules[i].enforced \in {EnforcedTrue, EnforcedBypass}

\* C5: on a rule set with no stored rule hasRules is false and
\* getFailedRules returns two empty lists, for every string.
C5_EmptyRuleSet ==
  Len(rules) = 0 =>
    /\ ~HasRules(rules)
    /\ last.op = "hasRules" => last.ret = FALSE
    /\ last.op = "getFailedRules" => last.failures = NewFailures
    /\ \A c \in Candidates : GetFailedRules(rules, c) = NewFailures

\* getFailedRules('') on a rule set with no stored rule.
C5_Witness ==
  /\ Len(rules) = 0
  /\ last.op = "getFailedRules"
  /\ last.toMatch = ""
  /\ last.failures = NewFailures

\* C6: push(undefined) changes neither the stored rules, nor hasRules, nor
\* the result of getFailedRules on any string.
C6_PushUndefinedNoOp ==
  [][(last'.op = "push" /\ last'.rule = Undefined) =>
       /\ rules' = rules
       /\ HasRules(rules') = HasRules(rules)
       /\ \A c \in Candidates :
            GetFailedRules(rules', c) = GetFailedRules(rules, c)]_vars

\* push(undefined) made on a rule set that holds rules.
C6_Witness ==
  /\ last.op = "push"
  /\ last.rule = Undefined
  /\ Len(rules) = 2
  /\ rules = pushed

\* C7: hasRules is true exactly when a push with a defined rule has been
\* made.
C7_HasRulesIffPushed ==
  /\ HasRules(rules) <=> Len(pushed) > 0
  /\ last.op = "hasRules" => (last.ret <=> Len(pushed) > 0)

\* hasRules read as true after one push of a defined rule.
C7_Witness ==
  /\ last.op = "hasRules"
  /\ last.ret = TRUE
  /\ Len(pushed) = 1

\* C8: a getFailedRules call leaves the stored rules and hasRules as they
\* were, and returns what the call before it returned when that was a
\* getFailedRules call with the same string.
C8_GetFailedRulesPure ==
  [][last'.op = "getFailedRules" =>
       /\ rules' = rules
       /\ HasRules(rules') = HasRules(rules)
       /\ (last.op = "getFailedRules" /\ last.toMatch = last'.toMatch)
            => last'.failures = last.failures]_vars

\* A getFailedRules call that reported into both lists.
C8_Witness ==
  /\ last.op = "getFailedRules"
  /\ last.failures.failed # <<>>
  /\ last.failures.bypassed # <<>>
  /\ rules = pushed
  /\ Len(rules) = 3

(***************************************************************************)
(* Properties of interleaved evaluations, checked under SpecConc.          *)
(***************************************************************************)
\* C9: every interleaved getFailedRules call returns the report it returns
\* when run alone, the report stays that way while other calls run, and no
\* step of a call changes the rule set.
C9_InterleavedEvaluations ==
  [][/\ \A p \in Evaluations :
          pc'[p] = "done" => heap'[ref'[p]] = expected'[p]
     /\ (\E p \in Evaluations : pc[p] = "loop") => rules' = rules]_vars

\* A call that started while another was running has returned a non-empty
\* report while the other, on another string, is still inside its loop with
\* a partial list of its own.
C9_Witness ==
  /\ Len(rules) = 2
  /\ pc["e1"] = "done"
  /\ pc["e2"] = "loop"
  /\ ref["e2"] = 1
  /\ ref["e1"] = 2
  /\ idx["e2"] = 2
  /\ arg["e1"] # arg["e2"]
  /\ heap[ref["e1"]] # NewFailures
  /\ heap[ref["e2"]] # NewFailures
  /\ heap[ref["e1"]] # heap[ref["e2"]]

(***************************************************************************)
(* Properties of the builder, checked under SpecBuild.                     *)
(***************************************************************************)
\* The raw metadata rules whose pattern does not compile.
BadRules(raws) ==
  {i \in 1..Len(raws) : /\ raws[i].category \in MetadataCategories
                        /\ ~Compiles(raws[i].pattern)}

\* The number of raw rules of a category.
RawCount(raws, cat) == Cardinality({i \in 1..Len(raws) : raws[i].category = cat})

\* C10: a build over raw rules one of which has a pattern that does not
\* compile returns the error and no RepoRulesInfo; nothing is returned
\* before build returns, and a RepoRulesInfo that is returned holds a rule
\* for every raw metadata rule.
C10_BadPatternFailsBuild ==
  /\ buildPc = "running" => buildResult.kind = "none"
  /\ buildPc = "returned" =>
       /\ BadRules(rawRules) # {} =>
            /\ buildResult.kind = "error"
            /\ buildResult.error = "InvalidPattern"
            /\ "evaluation" \notin DOMAIN buildResult
       /\ buildResult.kind = "ok" =>
            \A cat \in MetadataCategories :
              Len(buildResult.evaluation[cat]) = RawCount(rawRules, cat)

\* A build that returned the error for a bad pattern that follows a good
\* metadata rule.
C10_Witness ==
  /\ buildPc = "returned"
  /\ Len(rawRules) = 2
  /\ rawRules[1].category \in MetadataCategories
  /\ Compiles(rawRules[1].pattern)
  /\ BadRules(rawRules) = {2}
  /\ buildResult.kind = "error"
  /\ "evaluation" \notin DOMAIN buildResult

(***************************************************************************)
(* Properties of CICheckRunList, checked under SpecList.                   *)
(***************************************************************************)
\* C11: once the user has toggled a check run, a component update leaves
\* checkRunExpanded and hasUserToggledCheckRun as they are, and only a
\* click changes checkRunExpanded.
C11_UpdateKeepsUserPosition ==
  [][(state # NullState /\ state.hasUserToggledCheckRun) =>
       /\ listEvent' = "update" =>
            /\ state'.checkRunExpanded = state.checkRunExpanded
            /\ state'.hasUserToggledCheckRun = TRUE
       /\ state'.checkRunExpanded # state.checkRunExpanded =>
            listEvent' = "click"]_vars

\* After a click that collapsed everything, an update brought props with a
\* failed check run that has job steps, and nothing is expanded.
C11_Witness ==
  /\ listEvent = "update"
  /\ state.hasUserToggledCheckRun
  /\ state.checkRunExpanded = Null
  /\ FirstFailureExpanded(GetCheckRunsGrouped(props.checkRuns), 1) # Null
  /\ FirstFailureExpanded(state.checkRunGroups, 1) # Null

\* C12: while the user has toggled nothing, checkRunExpanded is the id of
\* the first check run, in group order, of the check runs of the current
\* props that is a failure and has job steps, and null when there is none.
C12_ExpandedFollowsProps ==
  (state # NullState /\ ~state.hasUserToggledCheckRun) =>
    state.checkRunExpanded
      = FirstFailureExpanded(GetCheckRunsGrouped(props.checkRuns), 1)

(***************************************************************************)
(* Properties of RepoRulesInfo, checked under SpecInfo.                    *)
(***************************************************************************)
\* C13: a new RepoRulesInfo has its three flags false and its four rule
\* sets empty, and a push into one rule set leaves the rules, hasRules and
\* every getFailedRules result of every other rule set, of the same object
\* and of the others, and the flags of every object, as they were.
C13_RuleSetsIndependent ==
  [][/\ \A i \in Infos :
          (infos[i] = NullInfo /\ infos'[i] # NullInfo) =>
            /\ \A flag \in ScalarCategories : infos'[i][flag] = EnforcedFalse
            /\ \A cat \in MetadataCategories :
                 /\ ~HasRules(RulesOf(infos', arrays', i, cat))
                 /\ \A c \in Candidates :
                      GetFailedRules(RulesOf(infos', arrays', i, cat), c)
                        = NewFailures
     /\ infoLast'.op = "push" =>
          \A j \in Constructed :
            /\ infos'[j] = infos[j]
            /\ \A cat \in MetadataCategories :
                 (j # infoLast'.info \/ cat # infoLast'.category) =>
                   /\ RulesOf(infos', arrays', j, cat)
                        = RulesOf(infos, arrays, j, cat)
                   /\ HasRules(RulesOf(infos', arrays', j, cat))
                        = HasRules(RulesOf(infos, arrays, j, cat))
                   /\ \A c \in Candidates :
                        GetFailedRules(RulesOf(infos', arrays', j, cat), c)
                          = GetFailedRules(RulesOf(infos, arrays, j, cat), c)]_vars

\* Two objects; the last call pushed into one rule set of the first, which
\* alone holds a rule, and the second object has a flag set.
C13_Witness ==
  /\ Constructed = Infos
  /\ infoLast.op = "push"
  /\ infoLast.info = "i1"
  /\ infoLast.category = "commitMessagePatterns"
  /\ HasRules(RulesOf(infos, arrays, "i1", "commitMessagePatterns"))
  /\ \A cat \in MetadataCategories \ {"commitMessagePatterns"} :
       ~HasRules(RulesOf(infos, arrays, "i1", cat))
  /\ \A cat \in MetadataCategories :
       ~HasRules(RulesOf(infos, arrays, "i2", cat))
  /\ infos["i2"].creationRestricted = EnforcedBypass
  /\ infos["i1"].creationRestricted = EnforcedFalse

====
